---------------------------- MODULE Spec2Model ----------------------------
(***************************************************************************)
(* Model of mlb_flash: the host-side serial protocol client (flash.py,     *)
(* class Flash) and its little-endian wire codec.                          *)
(*                                                                         *)
(* Bytes are naturals 0..255 (Python 2 one-character strings, via ord/chr).*)
(* Python integers are arbitrary precision; they are represented here the  *)
(* way CPython stores them: a little-endian sequence of 15-bit digits with *)
(* no leading (most significant) zero digit, so that 8-byte values fit.    *)
(***************************************************************************)
EXTENDS Integers, Sequences, FiniteSets, TLC

-----------------------------------------------------------------------------
(* Python integers                                                         *)

PyLongBase == 2^15

RECURSIVE Norm(_)
Norm(d) ==
    IF d = << >> THEN << >>
    ELSE IF d[Len(d)] = 0 THEN Norm(SubSeq(d, 1, Len(d) - 1))
    ELSE d

RECURSIVE PyInt(_)
PyInt(n) ==
    IF n = 0 THEN << >>
    ELSE << n % PyLongBase >> \o PyInt(n \div PyLongBase)

RECURSIVE AndNat(_, _)
AndNat(a, b) ==
    IF a = 0 \/ b = 0 THEN 0
    ELSE (a % 2) * (b % 2) + 2 * AndNat(a \div 2, b \div 2)

RECURSIVE OrNat(_, _)
OrNat(a, b) ==
    IF a = 0 THEN b
    ELSE IF b = 0 THEN a
    ELSE (IF a % 2 = 1 \/ b % 2 = 1 THEN 1 ELSE 0) + 2 * OrNat(a \div 2, b \div 2)

\* num & 0xFF
AndFF(num) == IF num = << >> THEN 0 ELSE AndNat(num[1], 255)

\* num >> 8
Shr8(num) ==
    Norm([i \in 1..Len(num) |->
            (num[i] \div 256)
            + (IF i < Len(num) THEN (num[i + 1] % 256) * (PyLongBase \div 256) ELSE 0)])

\* num << 8
Shl8(num) ==
    Norm([i \in 1..(Len(num) + 1) |->
            (IF i <= Len(num) THEN (num[i] % (PyLongBase \div 256)) * 256 ELSE 0)
            + (IF i > 1 THEN num[i - 1] \div (PyLongBase \div 256) ELSE 0)])

\* num | b, for a byte b
OrByte(num, b) ==
    IF num = << >> THEN PyInt(b)
    ELSE [num EXCEPT ![1] = OrNat(@, b)]

\* data[::-1]
Reverse(s) == [i \in 1..Len(s) |-> s[Len(s) + 1 - i]]

-----------------------------------------------------------------------------
(* Wire codec: flash.py i2b, b2i, byte, half, word, dblw                   *)

RECURSIVE i2bBigEndian(_, _)
i2bBigEndian(num, num_bytes) ==
    IF num_bytes = 0 THEN << >>
    ELSE i2bBigEndian(Shr8(num), num_bytes - 1) \o << AndFF(num) >>

\* for byte in range(num_bytes): out += chr(num & 0xFF); num >>= 8
RECURSIVE i2b(_, _)
i2b(num, num_bytes) ==
    IF num_bytes = 0 THEN << >>
    ELSE << AndFF(num) >> \o i2b(Shr8(num), num_bytes - 1)

\* for char in <chars>: out <<= 8; out |= ord(char)
RECURSIVE b2iLoop(_, _)
b2iLoop(out, chars) ==
    IF chars = << >> THEN out
    ELSE b2iLoop(OrByte(Shl8(out), Head(chars)), Tail(chars))

b2iForward(data) == b2iLoop(<< >>, data)

b2i(data) == b2iLoop(<< >>, Reverse(data))

byte(num) == i2b(num, 1)
half(num) == i2b(num, 2)
wordBigEndian(num) == i2bBigEndian(num, 4)

word(num) == i2b(num, 4)
dblw(num) == i2b(num, 8)

-----------------------------------------------------------------------------
(* Transport and exceptions                                                *)

\* ord() of the ASCII characters the protocol uses
Ord(c) ==
    CASE c = "A" -> 65
      [] c = "E" -> 69
      [] c = "I" -> 73
      [] c = "P" -> 80
      [] c = "R" -> 82
      [] c = "W" -> 87

MAGIC_CHALLENGE == << 254, 165, 27, 30 >>
MAGIC_RESPONSE  == << 254, 225, 144, 13 >>

\* Number of bytes sent before an ack
ACK_PERIOD == 16

Min(a, b) == IF a <= b THEN a ELSE b

\* No exception pending.  An exception is the format string of its message
\* together with the values formatted into it.
NoExc == [msg |-> "", args |-> << >>]

\* Transport events: "tx" a byte handed to serial.write, "req" a call of
\* serial.read (b = the length asked for), "rx" a byte it returned.
Tx(data) == [i \in 1..Len(data) |-> [ev |-> "tx", b |-> data[i]]]
Rx(data) == [i \in 1..Len(data) |-> [ev |-> "rx", b |-> data[i]]]
Req(length) == << [ev |-> "req", b |-> length] >>

\* The running call: wire = the transport events it has performed so far,
\* inp = the bytes the device delivers to it before the read timeout,
\* exc = the exception it has raised, ret = the value of its last read.
Thread(inp) == [wire |-> << >>, inp |-> inp, exc |-> NoExc, ret |-> << >>]

Raise(t, msg, args) == [t EXCEPT !.exc = [msg |-> msg, args |-> args]]

\* Flash.write: self.serial.write(data)
write(t, data) ==
    IF t.exc # NoExc THEN t
    ELSE [t EXCEPT !.wire = @ \o Tx(data)]

\* serial.read(length): up to length bytes, fewer when the timeout elapses
SerialRead(inp, length) == SubSeq(inp, 1, Min(length, Len(inp)))

readNoLengthCheck(t, length) ==
    IF t.exc # NoExc THEN t
    ELSE LET data == SerialRead(t.inp, length)
         IN  [t EXCEPT !.wire = (@ \o Req(length)) \o Rx(data),
                       !.inp  = SubSeq(@, Len(data) + 1, Len(@)),
                       !.ret  = data]

\* Flash.read
read(t, length) ==
    IF t.exc # NoExc THEN t
    ELSE LET data == SerialRead(t.inp, length)
             t1   == [t EXCEPT !.wire = (@ \o Req(length)) \o Rx(data),
                               !.inp  = SubSeq(@, Len(data) + 1, Len(@))]
         IN  IF Len(data) # length
             THEN Raise(t1, "Expected %d bytes, got %d.", << length, Len(data) >>)
             ELSE [t1 EXCEPT !.ret = data]

-----------------------------------------------------------------------------
(* Single commands                                                         *)

check_connectionFirstByte(t) ==
    LET t1 == read(write(t, MAGIC_CHALLENGE), 4)
    IN  IF t1.exc # NoExc THEN t1
        ELSE IF t1.ret[1] # MAGIC_RESPONSE[1]
             THEN Raise(t1, "Board not responding!", << >>)
             ELSE t1

\* Flash.check_connection
check_connection(t) ==
    LET t1 == read(write(t, MAGIC_CHALLENGE), 4)
    IN  IF t1.exc # NoExc THEN t1
        ELSE IF t1.ret # MAGIC_RESPONSE
             THEN Raise(t1, "Board not responding!", << >>)
             ELSE t1

\* Flash.get_rom_id; the value returned, when no exception is raised
get_rom_id(t) ==
    LET t1 == read(write(t, << Ord("I") >>), 1)
        t2 == read(t1, 1)
    IN  [t |-> t2,
         val |-> IF t2.exc # NoExc THEN << >> ELSE << b2i(t1.ret), b2i(t2.ret) >>]

pingAnyReply(t) == read(write(t, << Ord("P") >>), 1)

\* Flash.ping
ping(t) ==
    LET t1 == read(write(t, << Ord("P") >>), 1)
    IN  IF t1.exc # NoExc THEN t1
        ELSE IF t1.ret # << Ord("A") >>
             THEN Raise(t1, "Ping response 'A' expected, got %s", t1.ret)
             ELSE t1

\* Flash.erase
erase(t, address) ==
    LET t1 == read(write(write(t, << Ord("E") >>), word(PyInt(address))), 1)
    IN  IF t1.exc # NoExc THEN t1
        ELSE IF t1.ret # << Ord("A") >>
             THEN Raise(t1, "Erase response 'A' expected, got %s", t1.ret)
             ELSE t1

get_ackUnchecked(t) == read(t, 1)

\* Flash.get_ack
get_ack(t) ==
    LET t1 == read(t, 1)
    IN  IF t1.exc # NoExc THEN t1
        ELSE IF t1.ret # << Ord("A") >>
             THEN Raise(t1, "Acknowledge 'A' expected, got %s", t1.ret)
             ELSE t1

\* Flash.send_ack
send_ack(t) == write(t, << Ord("A") >>)

-----------------------------------------------------------------------------
(* Bulk transfer generators: Flash.rom_read_ and Flash.rom_write_          *)

\* A generator object.  pc is where it is suspended: "start" (created, body
\* not yet entered), the line of the yield it is suspended at, "done"
\* (returned, StopIteration) or "raised" (ended by an exception).  address,
\* length, data and read_bytes are the generator's arguments and locals;
\* buf is the data argument rom_write_ was called with.  yielded is the
\* sequence of values it has yielded and log the transport events it has
\* performed, with a "yield" event (b = the ordinal of the value yielded)
\* at each yield.
NoGen ==
    [kind |-> "none", pc |-> "none", address |-> 0, length |-> 0,
     buf |-> << >>, data |-> << >>, read_bytes |-> 0,
     yielded |-> << >>, log |-> << >>]

\* rom_read_(address, length): calling a generator function runs none of it
NewReadGen(address, length) ==
    [NoGen EXCEPT !.kind = "read", !.pc = "start",
                  !.address = address, !.length = length]

\* rom_write_(address, data)
NewWriteGen(address, data) ==
    [NoGen EXCEPT !.kind = "write", !.pc = "start",
                  !.address = address, !.buf = data, !.data = data]

\* yield value: the generator suspends at line `at`
Yield(g, t, value, at) ==
    [g |-> [g EXCEPT !.pc = at, !.yielded = Append(@, value)],
     t |-> [t EXCEPT !.wire = Append(@, [ev |-> "yield", b |-> Len(g.yielded) + 1])]]

Finished(g, t) ==
    [g |-> [g EXCEPT !.pc = IF t.exc # NoExc THEN "raised" ELSE "done"],
     t |-> t]

yield_then_ack(g, t, at) ==
    LET y == Yield(g, t, g.data, at)
    IN  [g |-> y.g, t |-> send_ack(y.t)]

\* self.send_ack(); yield data        (lines 143-144 and 149-150)
ack_then_yield(g, t, at) == Yield(g, send_ack(t), g.data, at)

RECURSIVE rom_read_loopNoFinalChunk(_, _)
rom_read_loopNoFinalChunk(g, t) ==
    IF g.read_bytes < g.length
    THEN LET t1 == read(t, 1)
         IN  IF t1.exc # NoExc THEN Finished(g, t1)
             ELSE LET g1 == [g EXCEPT !.data = @ \o t1.ret, !.read_bytes = @ + 1]
                  IN  IF g1.read_bytes % ACK_PERIOD = 0
                      THEN ack_then_yield(g1, t1, "144")
                      ELSE rom_read_loopNoFinalChunk(g1, t1)
    ELSE Finished(g, t)

\* The while loop of rom_read_ and what follows it (lines 137-152), run
\* from the loop head until the generator yields, returns or raises.
RECURSIVE rom_read_loop(_, _)
rom_read_loop(g, t) ==
    IF g.read_bytes < g.length
    THEN LET t1 == read(t, 1)
         IN  IF t1.exc # NoExc THEN Finished(g, t1)
             ELSE LET g1 == [g EXCEPT !.data = @ \o t1.ret, !.read_bytes = @ + 1]
                  IN  IF g1.read_bytes % ACK_PERIOD = 0
                      THEN ack_then_yield(g1, t1, "144")
                      ELSE rom_read_loop(g1, t1)
    ELSE IF g.read_bytes % ACK_PERIOD # 0
         THEN ack_then_yield(g, t, "150")
         ELSE Finished(g, t)

\* One next() of a rom_read_ generator
rom_read_next(g, t) ==
    CASE g.pc = "start" ->
            LET t1 == write(write(write(t, << Ord("R") >>),
                                  word(PyInt(g.address))), word(PyInt(g.length)))
            IN  rom_read_loop([g EXCEPT !.data = << >>, !.read_bytes = 0], t1)
      [] g.pc = "144" -> rom_read_loop([g EXCEPT !.data = << >>], t)
      [] g.pc = "150" -> Finished(g, t)

rom_write_loopDropTail(g, t) ==
    IF Len(g.data) >= ACK_PERIOD
    THEN LET block == SubSeq(g.data, 1, ACK_PERIOD)
             rest  == SubSeq(g.data, ACK_PERIOD + 1, Len(g.data))
         IN  Yield([g EXCEPT !.data = rest], write(t, block), Len(block), "175")
    ELSE Finished(g, t)

\* The while loop of rom_write_ (lines 171-175), run from the loop head
\* until the generator yields or returns.
rom_write_loop(g, t) ==
    IF g.data # << >>
    THEN LET block == SubSeq(g.data, 1, Min(ACK_PERIOD, Len(g.data)))
             rest  == SubSeq(g.data, ACK_PERIOD + 1, Len(g.data))
         IN  Yield([g EXCEPT !.data = rest], write(t, block), Len(block), "175")
    ELSE Finished(g, t)

\* One next() of a rom_write_ generator
rom_write_next(g, t) ==
    CASE g.pc = "start" ->
            LET t1 == write(write(write(t, << Ord("W") >>),
                                  word(PyInt(g.address))), word(PyInt(Len(g.data))))
            IN  rom_write_loop(g, t1)
      [] g.pc = "175" ->
            LET t1 == get_ack(t)
            IN  IF t1.exc # NoExc THEN Finished(g, t1)
                ELSE rom_write_loop(g, t1)

Suspended(g) == g.pc \in {"start", "144", "150", "175"}

GenNext(g, t) ==
    IF g.kind = "read" THEN rom_read_next(g, t) ELSE rom_write_next(g, t)

\* Exhausting a generator, as a for loop or "".join() does: next() until
\* StopIteration or an exception.
RECURSIVE Drain(_, _)
Drain(g, t) ==
    IF Suspended(g)
    THEN LET r == GenNext(g, t) IN Drain(r.g, r.t)
    ELSE [g |-> g, t |-> t]

\* "".join(chunks)
RECURSIVE Join(_)
Join(chunks) ==
    IF chunks = << >> THEN << >> ELSE Head(chunks) \o Join(Tail(chunks))

-----------------------------------------------------------------------------
(* The device and the caller                                               *)

\* Longest bulk transfer the caller asks for
MaxLen == 40

Addresses == {16640, 305419896}      \* 0x4100, 0x12345678

\* Transfer lengths: those on and next to a multiple of the ack period, and
\* the longest
Lengths ==
    {n \in 0..MaxLen :
        \/ n % ACK_PERIOD \in {0, 1, ACK_PERIOD - 1}
        \/ n = MaxLen}

\* After how many of the n bytes it owes the device may stop sending
Stops(n) == {k \in 0..n : k \in {0, 1, n - 1, n} \/ k % ACK_PERIOD = 0}
Images    == {"erased", "ramp"}

\* The byte the flash holds at address a
Rom(img, a) == IF img = "erased" THEN 255 ELSE (a % 251) + 1

RomBytes(img, a, n) == [i \in 1..n |-> Rom(img, a + i - 1)]

\* What the device may answer where one response byte is awaited: nothing
\* (timeout), 'A', or another byte
AckReplies == {<< >>, << Ord("A") >>, << Ord("E") >>}

IdReplies == {<< >>} \cup {<< m >> : m \in {1, 2}}
                     \cup {<< m, q >> : m \in {1, 2}, q \in {1, 2}}

HandshakeReplies ==
    {SubSeq(MAGIC_RESPONSE, 1, k) : k \in 0..4}
        \cup {<< 0, 0, 0, 0 >>, << 254, 225, 144, 14 >>, << 254, 0 >>}

\* The device's answers to a drained bulk write of n chunks: one reply per
\* chunk, or fewer when it stops answering
AckStreams(n) ==
    UNION {[1..k -> {Ord("A"), Ord("E")}] : k \in 0..n}

VARIABLES
    conn,       \* "new" (no Flash object yet), "open", "failed", "closed"
    image,      \* what the flash holds
    gen,        \* the bulk generator most recently created
    call,       \* the most recent call of a Flash method or next()
    num, num_bytes, encoded, decoded, phase,    \* the codec's round trip
    slots,          \* the sixteen boot slots held by the flash's control block
    boot_table,     \* the boot table the caller last obtained
    memory_table,   \* the memory table the caller last obtained
    mcall,          \* the most recent ManchesterFlash call or shell command
    host,           \* the bulk generator being drained over the serial link
    h2d, d2h,       \* bytes in flight: host to device, device to host
    dev             \* the device's side of the bulk transfer

flashVars == << conn, image, gen, call >>
codecVars == << num, num_bytes, encoded, decoded, phase >>
bootVars  == << slots, boot_table, memory_table, mcall >>
linkVars  == << host, h2d, d2h, dev >>
vars      == << conn, image, gen, call, num, num_bytes, encoded, decoded, phase,
                slots, boot_table, memory_table, mcall, host, h2d, d2h, dev >>

\* Python's None
None == << -1 >>

NoMCall == [op |-> "none", args |-> << >>, stop |-> << >>, reads |-> << >>,
            exc |-> NoExc, val |-> None, out |-> << >>, wire |-> << >>]

NoDev == [pc |-> "idle", op |-> 0, remaining |-> 0, window |-> 0, frame |-> << >>]

\* Nothing has been asked of the ManchesterFlash object or the shell
BootIdle ==
    /\ slots = << >> /\ boot_table = None /\ memory_table = None
    /\ mcall = NoMCall

\* No bulk transfer is being drained over the link
LinkIdle ==
    /\ host = NoGen /\ h2d = << >> /\ d2h = << >> /\ dev = NoDev

NoCall == [op |-> "none", address |-> 0, wire |-> << >>, exc |-> NoExc, val |-> << >>]

Called(op, address, t, val) ==
    [op |-> op, address |-> address, wire |-> t.wire, exc |-> t.exc,
     val |-> IF t.exc # NoExc THEN << >> ELSE val]

Init ==
    /\ conn = "new"
    /\ image \in Images
    /\ gen = NoGen
    /\ call = NoCall
    /\ num = << >> /\ num_bytes = 0 /\ encoded = << >> /\ decoded = << >>
    /\ phase = "idle"
    /\ BootIdle /\ LinkIdle

\* Flash.__init__: an exception leaves the caller without a Flash object
Connect ==
    /\ conn = "new"
    /\ \E inp \in HandshakeReplies :
         LET t == check_connection(Thread(inp))
         IN  /\ conn' = IF t.exc = NoExc THEN "open" ELSE "failed"
             /\ call' = Called("__init__", 0, t, << >>)
    /\ UNCHANGED << image, gen, codecVars, bootVars, linkVars >>

Ping ==
    /\ conn = "open"
    /\ \E inp \in AckReplies :
         call' = Called("ping", 0, ping(Thread(inp)), << >>)
    /\ UNCHANGED << conn, image, gen, codecVars, bootVars, linkVars >>

GetRomId ==
    /\ conn = "open"
    /\ \E inp \in IdReplies :
         LET r == get_rom_id(Thread(inp))
         IN  call' = Called("get_rom_id", 0, r.t, r.val)
    /\ UNCHANGED << conn, image, gen, codecVars, bootVars, linkVars >>

Erase ==
    /\ conn = "open"
    /\ \E address \in Addresses, inp \in AckReplies :
         call' = Called("erase", address, erase(Thread(inp), address), << >>)
    /\ UNCHANGED << conn, image, gen, codecVars, bootVars, linkVars >>

\* g = flash.rom_read_(address, length)
RomReadCreate ==
    /\ conn = "open"
    /\ \E address \in Addresses, length \in Lengths :
         /\ gen' = NewReadGen(address, length)
         /\ call' = Called("rom_read_", address, Thread(<< >>), << >>)
    /\ UNCHANGED << conn, image, codecVars, bootVars, linkVars >>

\* g = flash.rom_write_(address, data)
RomWriteCreate ==
    /\ conn = "open"
    /\ \E address \in Addresses, n \in Lengths :
         /\ gen' = NewWriteGen(address, RomBytes(image, address, n))
         /\ call' = Called("rom_write_", address, Thread(<< >>), << >>)
    /\ UNCHANGED << conn, image, codecVars, bootVars, linkVars >>

\* What the device sends while one next() runs: for a read, up to one ack
\* period of the bytes that follow those already sent; for a write, its
\* answer to the chunk before.
NextInputs(g) ==
    IF g.kind = "read"
    THEN LET sent == IF g.pc = "start" THEN 0 ELSE g.read_bytes
         IN  {RomBytes(image, g.address + sent, k) :
                 k \in Stops(Min(ACK_PERIOD, g.length - sent))}
    ELSE IF g.pc = "175" THEN AckReplies ELSE {<< >>}

\* g.next()
GenStep ==
    /\ conn = "open"
    /\ Suspended(gen)
    /\ \E inp \in NextInputs(gen) :
         LET r == GenNext(gen, Thread(inp))
         IN  /\ gen' = [r.g EXCEPT !.log = @ \o r.t.wire]
             /\ call' = Called("next", gen.address, r.t,
                               IF Suspended(r.g) THEN << r.g.yielded[Len(r.g.yielded)] >>
                               ELSE << >>)
    /\ UNCHANGED << conn, image, codecVars, bootVars, linkVars >>

\* What the device sends while the rest of a generator is exhausted: for a
\* read, some of the bytes that remain; for a write, an answer to each chunk
\* still to be acknowledged, or to fewer.
ExhaustInputs(g) ==
    IF g.kind = "read"
    THEN LET sent == IF g.pc = "start" THEN 0 ELSE g.read_bytes
         IN  {RomBytes(image, g.address + sent, k) : k \in Stops(g.length - sent)}
    ELSE AckStreams((Len(g.data) + ACK_PERIOD - 1) \div ACK_PERIOD
                    + (IF g.pc = "175" THEN 1 ELSE 0))

\* Exhausting the generator: "".join(g) in rom_read, `for _ in g: pass` in
\* rom_write, and the for loops of the callers of rom_read_ and rom_write_
Exhaust ==
    /\ conn = "open"
    /\ Suspended(gen)
    /\ \E inp \in ExhaustInputs(gen) :
         LET r == Drain(gen, Thread(inp))
         IN  /\ gen' = [r.g EXCEPT !.log = @ \o r.t.wire]
             /\ call' = Called("exhaust", gen.address, r.t,
                               IF gen.kind = "read"
                               THEN Join(SubSeq(r.g.yielded, Len(gen.yielded) + 1,
                                                Len(r.g.yielded)))
                               ELSE << >>)
    /\ UNCHANGED << conn, image, codecVars, bootVars, linkVars >>

\* Flash.close
Close ==
    /\ conn = "open"
    /\ conn' = "closed"
    /\ call' = Called("close", 0, Thread(<< >>), << >>)
    /\ UNCHANGED << image, gen, codecVars, bootVars, linkVars >>

Next ==
    \/ Connect \/ Ping \/ GetRomId \/ Erase
    \/ RomReadCreate \/ RomWriteCreate \/ GenStep
    \/ Exhaust \/ Close

Spec == Init /\ [][Next]_vars

-----------------------------------------------------------------------------
(* The codec on its own: encode a number, decode the bytes                 *)

Widths      == {1, 2, 4, 8}
SampleBytes == {0, 1, 128, 255}

\* d * m + c, by schoolbook arithmetic on the digits
RECURSIVE MulAdd(_, _, _)
MulAdd(d, m, c) ==
    IF d = << >> THEN PyInt(c)
    ELSE LET x == d[1] * m + c
         IN  << x % PyLongBase >> \o MulAdd(Tail(d), m, x \div PyLongBase)

\* The number whose base-256 digits, least significant first, are bytes:
\* the sum of bytes[i] * 256^(i-1)
RECURSIVE LEValue(_)
LEValue(bytes) ==
    IF bytes = << >> THEN << >>
    ELSE MulAdd(LEValue(Tail(bytes)), 256, Head(bytes))

\* a < b
PyLess(a, b) ==
    \/ Len(a) < Len(b)
    \/ /\ Len(a) = Len(b)
       /\ \E i \in 1..Len(a) :
            /\ a[i] < b[i]
            /\ \A j \in (i + 1)..Len(a) : a[j] = b[j]

\* 256^w
Pow256(w) == LEValue([i \in 1..(w + 1) |-> IF i = w + 1 THEN 1 ELSE 0])

\* The numbers to encode: every number of num_bytes sample bytes, and the
\* same with one more byte above them (too large for the width)
InitCodec ==
    /\ conn = "new" /\ image = "erased" /\ gen = NoGen /\ call = NoCall
    /\ num_bytes \in Widths
    /\ \E low \in [1..num_bytes -> SampleBytes], high \in {0, 1} :
          num = LEValue(low \o << high >>)
    /\ encoded = << >> /\ decoded = << >>
    /\ phase = "input"
    /\ BootIdle /\ LinkIdle

Encode ==
    /\ phase = "input"
    /\ encoded' = CASE num_bytes = 1 -> byte(num)
                    [] num_bytes = 2 -> half(num)
                    [] num_bytes = 4 -> word(num)
                    [] num_bytes = 8 -> dblw(num)
    /\ phase' = "encoded"
    /\ UNCHANGED << flashVars, bootVars, linkVars, num, num_bytes, decoded >>

Decode ==
    /\ phase = "encoded"
    /\ decoded' = b2i(encoded)
    /\ phase' = "decoded"
    /\ UNCHANGED << flashVars, bootVars, linkVars, num, num_bytes, encoded >>

NextCodec == Encode \/ Decode

SpecCodec == InitCodec /\ [][NextCodec]_vars

-----------------------------------------------------------------------------
(* Properties                                                              *)

\* The bytes of the events of one kind, in order
EvBytes(log, ev) ==
    LET sel == SelectSeq(log, LAMBDA e : e.ev = ev)
    IN  [i \in 1..Len(sel) |-> sel[i].b]

\* n as 4 bytes, least significant first (n < 2^31)
LE4(n) == [i \in 1..4 |-> (n \div 256^(i - 1)) % 256]

CeilDiv(n, d) == (n + d - 1) \div d

\* A bulk generator's events after its 9-byte command frame
Body(g) == SubSeq(g.log, 10, Len(g.log))

\* How many bytes have been received up to event i since the last byte written
RECURSIVE RxRun(_, _)
RxRun(log, i) ==
    IF i = 0 THEN 0
    ELSE IF log[i].ev = "tx" THEN 0
    ELSE RxRun(log, i - 1) + (IF log[i].ev = "rx" THEN 1 ELSE 0)

(* C1: a rom_read_ generator of length L that has been drained, the device
   having supplied its L bytes, has yielded chunks whose concatenation is
   exactly the L bytes received, in order, each chunk but the last of 16
   bytes and the last of 1 to 16, and has written exactly ceil(L/16) bytes
   'A' after its command frame and nothing else; L = 40 gives chunks of
   16, 16 and 8 bytes and 3 acks, L = 0 no chunk and no ack. *)
C1_ReadChunking ==
    (gen.kind = "read" /\ gen.pc = "done") =>
        LET L      == gen.length
            chunks == gen.yielded
        IN  /\ EvBytes(Body(gen), "rx") = RomBytes(image, gen.address, L)
            /\ Join(chunks) = EvBytes(Body(gen), "rx")
            /\ Len(chunks) = CeilDiv(L, 16)
            /\ \A i \in 1..Len(chunks) :
                 Len(chunks[i]) = IF i < Len(chunks) THEN 16 ELSE L - 16 * (i - 1)
            /\ EvBytes(Body(gen), "tx") = [i \in 1..CeilDiv(L, 16) |-> 65]
            /\ (L = 40 => /\ [i \in 1..Len(chunks) |-> Len(chunks[i])] = << 16, 16, 8 >>
                          /\ Len(EvBytes(Body(gen), "tx")) = 3)
            /\ (L = 0 => chunks = << >> /\ Body(gen) = << >>)

C1_Witness ==
    /\ gen.kind = "read" /\ gen.pc = "done" /\ gen.length = 40
    /\ image = "ramp"
    /\ Len(gen.yielded) = 3 /\ Len(gen.yielded[3]) = 8
    /\ EvBytes(Body(gen), "tx") = << 65, 65, 65 >>

(* C2: in a bulk read, every chunk is received, then acknowledged, then
   yielded: each yield comes directly after the write of one 'A', which
   comes directly after the last byte of that chunk was received; the chunk
   yielded is exactly the bytes received since the yield before; the only
   bytes written are these acks; once 16 bytes have been received nothing
   is read before the ack is written; so at no point have more than 16
   bytes been received since the last byte written. *)
C2_ReceiveAckYield ==
    gen.kind = "read" =>
        LET body == Body(gen)
        IN  \A i \in 1..Len(body) :
              /\ RxRun(body, i) <= 16
              /\ (RxRun(body, i) = 16 /\ i < Len(body)) => body[i + 1].ev = "tx"
              /\ body[i].ev = "tx" =>
                    /\ body[i].b = 65
                    /\ i > 1 /\ body[i - 1].ev = "rx"
                    /\ i < Len(body) /\ body[i + 1].ev = "yield"
              /\ body[i].ev = "yield" =>
                    /\ i > 1 /\ body[i - 1] = [ev |-> "tx", b |-> 65]
                    /\ EvBytes(SubSeq(body, 1, i), "rx")
                          = Join(SubSeq(gen.yielded, 1, body[i].b))

C2_Witness ==
    /\ gen.kind = "read" /\ gen.pc = "144" /\ gen.length = 40
    /\ Len(gen.yielded) = 2
    /\ Len(EvBytes(Body(gen), "rx")) = 32
    /\ Body(gen)[Len(Body(gen)) - 1] = [ev |-> "tx", b |-> 65]

(* C10: for every width w in {1,2,4,8} and every n with 0 <= n < 256^w,
   i2b(n, w) is w bytes, each in 0..255, whose values weighted by
   256^position sum to n (least significant byte first), and b2i of them
   is n again. *)
C10_RoundTrip ==
    (phase \in {"encoded", "decoded"} /\ PyLess(num, Pow256(num_bytes))) =>
        /\ Len(encoded) = num_bytes
        /\ \A i \in 1..Len(encoded) : encoded[i] \in 0..255
        /\ LEValue(encoded) = num
        /\ phase = "decoded" => decoded = num

C10_Witness ==
    /\ phase = "decoded" /\ num_bytes = 8
    /\ PyLess(num, Pow256(8)) /\ ~ PyLess(num, Pow256(7))
    /\ encoded[1] = 1 /\ encoded[2] = 128 /\ encoded[8] = 255
    /\ decoded = num

(* C3: a rom_write_ generator that has been drained has written, after its
   command frame, exactly the bytes of its buffer, in order; it has yielded
   ceil(N/16) chunk lengths, each 16 but the last, which is what remains
   (N mod 16 when that is not 0), so that they sum to N; the bytes written
   before the k-th yield are the first min(16k, N) of the buffer; and it
   has read one byte per chunk, ceil(N/16) in all, each an 'A'. *)
C3_WriteChunking ==
    (gen.kind = "write" /\ gen.pc = "done") =>
        LET N    == Len(gen.buf)
            body == Body(gen)
            lens == gen.yielded
        IN  /\ EvBytes(body, "tx") = gen.buf
            /\ Len(lens) = CeilDiv(N, 16)
            /\ \A k \in 1..Len(lens) :
                 lens[k] = IF k < Len(lens) THEN 16 ELSE N - 16 * (k - 1)
            /\ N % 16 # 0 => lens[Len(lens)] = N % 16
            /\ \A i \in 1..Len(body) :
                 body[i].ev = "yield" =>
                    EvBytes(SubSeq(body, 1, i), "tx")
                       = SubSeq(gen.buf, 1, IF 16 * body[i].b < N THEN 16 * body[i].b ELSE N)
            /\ EvBytes(body, "req") = [k \in 1..CeilDiv(N, 16) |-> 1]
            /\ EvBytes(body, "rx") = [k \in 1..CeilDiv(N, 16) |-> 65]

C3_Witness ==
    /\ gen.kind = "write" /\ gen.pc = "done" /\ Len(gen.buf) = 40
    /\ image = "ramp"
    /\ gen.yielded = << 16, 16, 8 >>
    /\ EvBytes(Body(gen), "rx") = << 65, 65, 65 >>

(* C4: in a bulk write, the first byte of every chunk after the first is
   written directly after one byte was read and found to be 'A', that read
   coming directly after the yield of the chunk before; every yield comes
   directly after a chunk's last byte; a byte read that is not 'A' is the
   generator's last event: the generator ends by raising the acknowledge
   error and writes nothing more. *)
C4_WriteAckGate ==
    gen.kind = "write" =>
        LET body == Body(gen)
        IN  /\ \A i \in 1..Len(body) :
                 /\ (body[i].ev = "tx" /\ i > 1 /\ body[i - 1].ev # "tx") =>
                       /\ i > 3
                       /\ body[i - 1] = [ev |-> "rx", b |-> 65]
                       /\ body[i - 2] = [ev |-> "req", b |-> 1]
                       /\ body[i - 3].ev = "yield"
                 /\ body[i].ev = "yield" => i > 1 /\ body[i - 1].ev = "tx"
                 /\ (body[i].ev = "rx" /\ body[i].b # 65) =>
                       /\ i = Len(body)
                       /\ gen.pc = "raised"
                       /\ call.op \in {"next", "exhaust"} =>
                            call.exc = [msg  |-> "Acknowledge 'A' expected, got %s",
                                        args |-> << body[i].b >>]
            /\ gen.pc = "raised" => ~ Suspended(gen)

C4_Witness ==
    /\ gen.kind = "write" /\ gen.pc = "raised" /\ Len(gen.buf) = 40
    /\ Len(gen.yielded) = 2
    /\ Len(EvBytes(Body(gen), "tx")) = 32
    /\ EvBytes(Body(gen), "rx") = << 65, 69 >>

(* C5: creating a connection writes FE A5 1B 1E and then asks once for 4
   bytes; it succeeds exactly when the bytes returned are FE E1 90 0D and
   fails with an exception otherwise (other bytes, fewer bytes, none); on a
   connection that was not created no command has been issued and no
   generator exists. *)
C5_Handshake ==
    /\ call.op = "__init__" =>
          /\ Len(call.wire) >= 5
          /\ SubSeq(call.wire, 1, 5)
                = << [ev |-> "tx", b |-> 254], [ev |-> "tx", b |-> 165],
                     [ev |-> "tx", b |-> 27], [ev |-> "tx", b |-> 30],
                     [ev |-> "req", b |-> 4] >>
          /\ \A i \in 6..Len(call.wire) : call.wire[i].ev = "rx"
          /\ conn \in {"open", "failed"}
          /\ (conn = "open") <=> (EvBytes(call.wire, "rx") = << 254, 225, 144, 13 >>)
          /\ (conn = "failed") <=> (call.exc # NoExc)
    /\ conn \in {"new", "failed"} =>
          /\ gen = NoGen
          /\ call.op \in {"none", "__init__"}

C5_Witness ==
    /\ conn = "failed" /\ call.op = "__init__"
    /\ EvBytes(call.wire, "rx") = << 0, 0, 0, 0 >>
    /\ call.exc.msg = "Board not responding!"

(* C6: ping writes 'P' and nothing else, identify 'I' and nothing else, and
   each then reads; identify returns the two bytes read as (manufacturer,
   part), 01 02 giving (1, 2); erase writes 'E' and the address as 4 bytes,
   least significant first, and then reads; a bulk read or write starts with
   'R' or 'W', the address and then the length, each as 4 bytes least
   significant first, before anything else is written, read or yielded. *)
C6_Frames ==
    /\ call.op = "ping" =>
          /\ EvBytes(call.wire, "tx") = << 80 >>
          /\ SubSeq(call.wire, 1, 2) = Tx(<< 80 >>) \o Req(1)
    /\ call.op = "get_rom_id" =>
          LET rx == EvBytes(call.wire, "rx")
          IN  /\ EvBytes(call.wire, "tx") = << 73 >>
              /\ SubSeq(call.wire, 1, 2) = Tx(<< 73 >>) \o Req(1)
              /\ call.exc = NoExc =>
                    /\ Len(rx) = 2
                    /\ call.val = << PyInt(rx[1]), PyInt(rx[2]) >>
              /\ rx = << 1, 2 >> => call.val = << PyInt(1), PyInt(2) >>
    /\ call.op = "erase" =>
          /\ EvBytes(call.wire, "tx") = << 69 >> \o LE4(call.address)
          /\ SubSeq(call.wire, 1, 6) = Tx(<< 69 >> \o LE4(call.address)) \o Req(1)
    /\ gen.pc = "start" => gen.log = << >>
    /\ (gen.kind = "read" /\ gen.pc # "start") =>
          SubSeq(gen.log, 1, 9) = Tx((<< 82 >> \o LE4(gen.address)) \o LE4(gen.length))
    /\ (gen.kind = "write" /\ gen.pc # "start") =>
          SubSeq(gen.log, 1, 9) = Tx((<< 87 >> \o LE4(gen.address)) \o LE4(Len(gen.buf)))

C6_Witness ==
    /\ call.op = "get_rom_id" /\ call.val = << PyInt(1), PyInt(2) >>
    /\ gen.kind = "read" /\ gen.pc = "144"
    /\ EvBytes(SubSeq(gen.log, 1, 9), "tx") = << 82, 120, 86, 52, 18, 40, 0, 0, 0 >>

UnexpectedResponse(msg) ==
    msg \in {"Ping response 'A' expected, got %s",
             "Erase response 'A' expected, got %s",
             "Acknowledge 'A' expected, got %s"}

\* The opcode of the command an error message names; -1 when it names none
OpcodeNamed(msg) ==
    CASE msg = "Ping response 'A' expected, got %s"  -> 80
      [] msg = "Erase response 'A' expected, got %s" -> 69
      [] OTHER -> -1

\* The opcode of the command the most recent call belongs to
CallOpcode ==
    CASE call.op = "ping" -> 80
      [] call.op = "get_rom_id" -> 73
      [] call.op = "erase" -> 69
      [] call.op \in {"next", "exhaust"} /\ gen.log # << >> -> gen.log[1].b
      [] OTHER -> -1

LastRx(log) == LET rx == EvBytes(log, "rx") IN << rx[Len(rx)] >>

(* C7 as claimed: whenever a call fails because a response byte is not the
   expected 'A' (ping, erase, the acknowledgement of a bulk write chunk),
   the error carries the opcode of the command and the byte received. *)
C7_ErrorCarriesOpcode ==
    UnexpectedResponse(call.exc.msg) =>
        /\ call.exc.args = LastRx(call.wire)
        /\ OpcodeNamed(call.exc.msg) = CallOpcode

(* C7 as amended: ping and erase each ask once for one byte and succeed
   exactly when it is 'A'; for another byte they raise an error whose
   message names the command (Ping, Erase) and holds the byte received; a
   wrong acknowledgement in a bulk write raises an error that holds the
   byte received and names no command. *)
C7_ResponseErrors ==
    /\ call.op \in {"ping", "erase"} =>
          LET rx == EvBytes(call.wire, "rx")
          IN  /\ EvBytes(call.wire, "req") = << 1 >>
              /\ (call.exc = NoExc) <=> (rx = << 65 >>)
              /\ (Len(rx) = 1 /\ rx # << 65 >>) =>
                    /\ call.exc.args = rx
                    /\ UnexpectedResponse(call.exc.msg)
                    /\ OpcodeNamed(call.exc.msg) = CallOpcode
    /\ (call.op \in {"next", "exhaust"} /\ gen.kind = "write"
          /\ UnexpectedResponse(call.exc.msg)) =>
          /\ call.exc.args = LastRx(call.wire)
          /\ call.exc.args # << 65 >>
          /\ call.exc.msg = "Acknowledge 'A' expected, got %s"
          /\ OpcodeNamed(call.exc.msg) = -1

C7_Witness ==
    /\ call.op = "next" /\ gen.kind = "write" /\ gen.pc = "raised"
    /\ call.exc = [msg |-> "Acknowledge 'A' expected, got %s", args |-> << 69 >>]
    /\ CallOpcode = 87

\* How many bytes serial.read returned for the request at event i
RECURSIVE Returned(_, _)
Returned(log, i) ==
    IF i < Len(log) /\ log[i + 1].ev = "rx" THEN 1 + Returned(log, i + 1) ELSE 0

ShortReadAt(log, i) == log[i].ev = "req" /\ Returned(log, i) < log[i].b

(* C8: when serial.read returns fewer bytes than were asked for (none
   included), nothing follows in that call: no further read, write or
   yield; the call raises the error holding the length expected and the
   length received; a generator it happens in has ended; and in a bulk read
   the bytes received since the last yield are neither acknowledged nor
   yielded: acks and chunks stay one per complete 16 bytes received. *)
C8_ShortReadFatal ==
    /\ \A i \in 1..Len(call.wire) :
          ShortReadAt(call.wire, i) =>
             /\ i + Returned(call.wire, i) = Len(call.wire)
             /\ call.exc = [msg  |-> "Expected %d bytes, got %d.",
                            args |-> << call.wire[i].b, Returned(call.wire, i) >>]
    /\ call.exc.msg = "Expected %d bytes, got %d." =>
          \E i \in 1..Len(call.wire) : ShortReadAt(call.wire, i)
    /\ \A i \in 1..Len(gen.log) :
          ShortReadAt(gen.log, i) =>
             /\ i + Returned(gen.log, i) = Len(gen.log)
             /\ gen.pc = "raised"
             /\ gen.kind = "read" =>
                   LET n == Len(EvBytes(Body(gen), "rx")) \div 16
                   IN  /\ Len(gen.yielded) = n
                       /\ Len(Join(gen.yielded)) = 16 * n
                       /\ Len(EvBytes(Body(gen), "tx")) = n

C8_Witness ==
    /\ gen.kind = "read" /\ gen.pc = "raised" /\ gen.length = 40
    /\ Len(EvBytes(Body(gen), "rx")) = 17
    /\ Len(gen.yielded) = 1
    /\ call.op = "next"
    /\ call.exc = [msg |-> "Expected %d bytes, got %d.", args |-> << 1, 0 >>]

\* A bulk transfer that has begun and still has bytes to move or an
\* acknowledgement to read
InFlight(g) ==
    \/ g.kind = "read"  /\ g.pc = "144" /\ g.read_bytes < g.length
    \/ g.kind = "write" /\ g.pc = "175"

(* C9: at most one protocol exchange is in flight: no command (ping,
   identify, erase) has been issued, its opcode written, while the bulk
   generator is suspended part way through its transfer. *)
C9_OneExchangeInFlight ==
    InFlight(gen) => call.op \notin {"ping", "get_rom_id", "erase"}

-----------------------------------------------------------------------------
(* ManchesterFlash: the boot table, the memory table and the erase check   *)

CONTROL_BLOCK == 16384                      \* 0x4000

NUM_BOOTS == 16

BOOT_MAGIC_NUMBER == << 67, 79, 68, 69 >>   \* "CODE"

ROM_SECTORSUniform == [i \in 1..32 |-> << (i - 1) * 65536, i * 65536 >>]

\* Individually erasable sectors of the flash, (start, end) with end exclusive
ROM_SECTORS ==
    <<
       <<       0,   16384 >>,   \* (0x000000, 0x004000)
       <<   16384,   24576 >>,   \* (0x004000, 0x006000)
       <<   24576,   32768 >>,   \* (0x006000, 0x008000)
       <<   32768,   65536 >>,   \* (0x008000, 0x010000)
       <<   65536,  131072 >>,   \* (0x010000, 0x020000)
       <<  131072,  196608 >>,   \* (0x020000, 0x030000)
       <<  196608,  262144 >>,   \* (0x030000, 0x040000)
       <<  262144,  327680 >>,   \* (0x040000, 0x050000)
       <<  327680,  393216 >>,   \* (0x050000, 0x060000)
       <<  393216,  458752 >>,   \* (0x060000, 0x070000)
       <<  458752,  524288 >>,   \* (0x070000, 0x080000)
       <<  524288,  589824 >>,   \* (0x080000, 0x090000)
       <<  589824,  655360 >>,   \* (0x090000, 0x0A0000)
       <<  655360,  720896 >>,   \* (0x0A0000, 0x0B0000)
       <<  720896,  786432 >>,   \* (0x0B0000, 0x0C0000)
       <<  786432,  851968 >>,   \* (0x0C0000, 0x0D0000)
       <<  851968,  917504 >>,   \* (0x0D0000, 0x0E0000)
       <<  917504,  983040 >>,   \* (0x0E0000, 0x0F0000)
       <<  983040, 1048576 >>,   \* (0x0F0000, 0x100000)
       << 1048576, 1114112 >>,   \* (0x100000, 0x110000)
       << 1114112, 1179648 >>,   \* (0x110000, 0x120000)
       << 1179648, 1245184 >>,   \* (0x120000, 0x130000)
       << 1245184, 1310720 >>,   \* (0x130000, 0x140000)
       << 1310720, 1376256 >>,   \* (0x140000, 0x150000)
       << 1376256, 1441792 >>,   \* (0x150000, 0x160000)
       << 1441792, 1507328 >>,   \* (0x160000, 0x170000)
       << 1507328, 1572864 >>,   \* (0x170000, 0x180000)
       << 1572864, 1638400 >>,   \* (0x180000, 0x190000)
       << 1638400, 1703936 >>,   \* (0x190000, 0x1A0000)
       << 1703936, 1769472 >>,   \* (0x1A0000, 0x1B0000)
       << 1769472, 1835008 >>,   \* (0x1B0000, 0x1C0000)
       << 1835008, 1900544 >>,   \* (0x1C0000, 0x1D0000)
       << 1900544, 1966080 >>,   \* (0x1D0000, 0x1E0000)
       << 1966080, 2031616 >>,   \* (0x1E0000, 0x1F0000)
       << 2031616, 2097152 >>    \* (0x1F0000, 0x200000)
    >>

\* a + b on Python integers
RECURSIVE AddDigits(_, _, _)
AddDigits(a, b, carry) ==
    IF a = << >> /\ b = << >>
    THEN IF carry = 0 THEN << >> ELSE << carry >>
    ELSE LET x == IF a = << >> THEN 0 ELSE Head(a)
             y == IF b = << >> THEN 0 ELSE Head(b)
             s == x + y + carry
         IN  << s % PyLongBase >>
             \o AddDigits(IF a = << >> THEN a ELSE Tail(a),
                          IF b = << >> THEN b ELSE Tail(b), s \div PyLongBase)

PyAdd(a, b) == AddDigits(a, b, 0)

\* a < b in Python 2, where None is smaller than every number
PyLt(a, b) ==
    IF b = None THEN FALSE
    ELSE IF a = None THEN TRUE
    ELSE PyLess(a, b)

\* a <= b in Python 2
PyLe(a, b) ==
    IF a = None THEN TRUE
    ELSE IF b = None THEN FALSE
    ELSE ~PyLess(b, a)

\* data[a:b]
Slice(data, a, b) == SubSeq(data, a + 1, Min(b, Len(data)))

\* s.rstrip(c): s up to its last character other than c
rstrip(s, c) ==
    LET keep == {i \in 1..Len(s) : s[i] # c}
    IN  SubSeq(s, 1, IF keep = {} THEN 0 ELSE CHOOSE i \in keep : \A j \in keep : j <= i)

\* s.find(sep), counting from 1; 0 when sep does not occur
find(s, sep) ==
    LET hits == {i \in 1..Len(s) : s[i] = sep}
    IN  IF hits = {} THEN 0 ELSE CHOOSE i \in hits : \A j \in hits : i <= j

rpartition(s, sep) ==
    LET hits == {i \in 1..Len(s) : s[i] = sep}
        i    == CHOOSE i \in hits : \A j \in hits : j <= i
    IN  IF hits = {} THEN << s, << >>, << >> >>
        ELSE << SubSeq(s, 1, i - 1), << sep >>, SubSeq(s, i + 1, Len(s)) >>

\* s.partition(sep): (head, sep, tail), or (s, "", "") when sep does not occur
partition(s, sep) ==
    LET i == find(s, sep)
    IN  IF i = 0 THEN << s, << >>, << >> >>
        ELSE << SubSeq(s, 1, i - 1), << sep >>, SubSeq(s, i + 1, Len(s)) >>

\* Flash.rom_read: the chunks of the exhausted generator, joined
rom_read(t, address, length) ==
    LET r == Drain(NewReadGen(address, length), t)
    IN  [t |-> r.t, val |-> Join(r.g.yielded)]

boot_entryMagicPrefix(data) ==
    LET msg == partition(rstrip(Slice(data, 48, Len(data)), 255), 0)
    IN  IF Slice(data, 0, 3) # Slice(BOOT_MAGIC_NUMBER, 0, 3) THEN None
        ELSE [i \in 1..13 |->
                IF i <= 11 THEN b2i(Slice(data, 4 * i, 4 * i + 4))
                ELSE msg[2 * i - 23]]

\* The body of get_boot_table's loop after the read: one slot decoded
boot_entry(data) ==
    LET magic_number    == Slice(data, 0, 4)
        flags           == b2i(Slice(data, 4, 8))
        ram_img_start   == b2i(Slice(data, 8, 12))
        ram_img_length  == b2i(Slice(data, 12, 16))
        rom_img_start   == b2i(Slice(data, 16, 20))
        rom_img_length  == b2i(Slice(data, 20, 24))
        rom_exec_offset == b2i(Slice(data, 24, 28))
        rom_exec_cpsr   == b2i(Slice(data, 28, 32))
        spartan_start   == b2i(Slice(data, 32, 36))
        spartan_length  == b2i(Slice(data, 36, 40))
        virtex_start    == b2i(Slice(data, 40, 44))
        virtex_length   == b2i(Slice(data, 44, 48))
        msg == partition(rstrip(Slice(data, 48, Len(data)), 255), 0)
    IN  IF magic_number # BOOT_MAGIC_NUMBER THEN None
        ELSE << flags, ram_img_start, ram_img_length,
                rom_img_start, rom_img_length,
                rom_exec_offset, rom_exec_cpsr,
                spartan_start, spartan_length,
                virtex_start, virtex_length, msg[1], msg[3] >>

\* What a boot slot of the flash may hold
SlotKinds == {"erased", "zeroed", "codf", "app", "blank", "mmu", "nul"}

\* The slot's magic number
SlotMagic(kind) ==
    CASE kind = "erased" -> << 255, 255, 255, 255 >>
      [] kind = "zeroed" -> << 0, 0, 0, 0 >>
      [] kind = "codf"   -> << 67, 79, 68, 70 >>
      [] OTHER           -> BOOT_MAGIC_NUMBER

\* The slot's eleven 32-bit fields, in slot order: flags, RAM start and
\* length, ROM start and length, exec offset, CPSR, Spartan start and
\* length, Virtex start and length
SlotFields(kind) ==
    CASE kind \in {"erased", "blank"} -> [i \in 1..11 |-> << 255, 255, 255, 255 >>]
      [] kind \in {"zeroed", "nul"}   -> [i \in 1..11 |-> << 0, 0, 0, 0 >>]
      [] kind \in {"app", "codf"} ->
            << LE4(9), LE4(0), LE4(0), LE4(65792), LE4(256), LE4(0), LE4(211),
               LE4(126976), LE4(8192), LE4(196608), LE4(196608) >>
      [] kind = "mmu" ->
            << LE4(1), LE4(32768), LE4(256), LE4(32768), LE4(512), LE4(4), LE4(0),
               LE4(16384), LE4(16), LE4(24576), LE4(8192) >>

\* The bytes the slot's message region starts with
SlotMessage(kind) ==
    CASE kind \in {"app", "codf"} -> << 72, 105, 0, 120, 255, 121, 0, 122 >>
      [] kind = "mmu"             -> << 65, 66, 67 >>
      [] kind = "nul"             -> << 255, 65, 0, 0, 66 >>
      [] OTHER                    -> << >>

\* Byte off (from 0) of a slot
SlotByte(kind, off) ==
    IF off < 4 THEN SlotMagic(kind)[off + 1]
    ELSE IF off < 48 THEN SlotFields(kind)[((off - 4) \div 4) + 1][(off % 4) + 1]
    ELSE IF off - 48 < Len(SlotMessage(kind)) THEN SlotMessage(kind)[off - 47]
    ELSE IF kind = "zeroed" THEN 0 ELSE 255

\* The control blocks a flash may hold: the first and the last slot vary,
\* the slots between them are erased
Tables ==
    {[i \in 0..(NUM_BOOTS - 1) |->
        IF i = 0 THEN a ELSE IF i = NUM_BOOTS - 1 THEN b ELSE "erased"] :
     a \in SlotKinds, b \in {"erased", "app", "mmu"}}

\* The byte of the flash at address a, for the control block s
FlashByte(s, a) ==
    IF CONTROL_BLOCK <= a /\ a < CONTROL_BLOCK + 256 * NUM_BOOTS
    THEN SlotByte(s[(a - CONTROL_BLOCK) \div 256], (a - CONTROL_BLOCK) % 256)
    ELSE 255

\* What the device sends for a read of length bytes at address; it falls
\* silent after `sent` of them
DeviceBytes(s, address, length, sent) ==
    [k \in 1..Min(length, sent) |-> FlashByte(s, address + k - 1)]

\* get_boot_table's loop from slot `boot` on.  The device answers every read
\* in full except read number stop[1], of which it sends stop[2] bytes.
\* reads collects what each read wrote: its command frame, then its acks.
RECURSIVE get_boot_table_loop(_, _, _, _, _)

\* The loop's body once rom_read has ended as r (lines 282-309)
get_boot_table_body(r, boot, out, reads, s, stop) ==
    IF r.t.exc # NoExc
    THEN [exc |-> r.t.exc, val |-> None,
          reads |-> Append(reads, EvBytes(r.t.wire, "tx"))]
    ELSE get_boot_table_loop(boot + 1, Append(out, boot_entry(r.val)),
                             Append(reads, EvBytes(r.t.wire, "tx")), s, stop)

get_boot_table_loop(boot, out, reads, s, stop) ==
    IF boot = NUM_BOOTS
    THEN [exc |-> NoExc, val |-> out, reads |-> reads]
    ELSE get_boot_table_body(
             rom_read(Thread(DeviceBytes(s, CONTROL_BLOCK + (boot * 256), 256,
                                         IF boot = stop[1] THEN stop[2] ELSE 256)),
                      CONTROL_BLOCK + (boot * 256), 256),
             boot, out, reads, s, stop)

\* ManchesterFlash.get_boot_table
get_boot_table(s, stop) == get_boot_table_loop(0, << >>, << >>, s, stop)

\* The device answers every read in full
NoStop == << NUM_BOOTS, 0 >>

\* ((start, end), name): one entry of a memory table
Range(start, end, fmt, args) ==
    << << start, end >>, [fmt |-> fmt, args |-> args] >>

\* The ranges one boot table entry adds, lines 330-351
boot_ranges(boot_num, boot) ==
    IF boot = None THEN << >>
    ELSE LET ram_img_start  == boot[2]
             ram_img_length == boot[3]
             rom_img_start  == boot[4]
             rom_img_length == boot[5]
             spartan_start  == boot[8]
             spartan_length == boot[9]
             virtex_start   == boot[10]
             virtex_length  == boot[11]
         IN  (IF ram_img_length # << >>
              THEN << Range(ram_img_start, PyAdd(ram_img_start, ram_img_length),
                            "Boot %d RAM Image", << boot_num >>) >>
              ELSE << >>)
          \o (IF rom_img_length # << >>
              THEN << Range(rom_img_start, PyAdd(rom_img_start, rom_img_length),
                            "Boot %d ROM Image", << boot_num >>) >>
              ELSE << >>)
          \o (IF spartan_length # << >>
              THEN << Range(spartan_start, PyAdd(spartan_start, spartan_length),
                            "Boot %d Spartan Image", << boot_num >>) >>
              ELSE << >>)
          \o (IF virtex_length # << >>
              THEN << Range(virtex_start, PyAdd(virtex_start, virtex_length),
                            "Boot %d Virtex Image", << boot_num >>) >>
              ELSE << >>)

\* for boot_num, boot in enumerate(boot_table): ... ranges.append(...)
RECURSIVE append_ranges(_, _, _)
append_ranges(ranges, table, boot_num) ==
    IF boot_num >= Len(table) THEN ranges
    ELSE append_ranges(ranges \o boot_ranges(boot_num, table[boot_num + 1]),
                       table, boot_num + 1)

RECURSIVE insert_reverse(_, _)

insert_reverseBeforeEqual(done, r) ==
    IF done = << >> THEN << r >>
    ELSE IF ~PyLess(r[1][1], Head(done)[1][1]) THEN << r >> \o done
    ELSE << Head(done) >> \o insert_reverse(Tail(done), r)

\* r goes behind every entry of the descending list whose start is not smaller
insert_reverse(done, r) ==
    IF done = << >> THEN << r >>
    ELSE IF PyLess(Head(done)[1][1], r[1][1]) THEN << r >> \o done
    ELSE << Head(done) >> \o insert_reverse(Tail(done), r)

\* sorted(ranges, key = start, reverse = True): Python's sort is stable, and
\* with reverse = True entries of equal key still keep their original order
RECURSIVE sorted_reverse_from(_, _)
sorted_reverse_from(done, ranges) ==
    IF ranges = << >> THEN done
    ELSE sorted_reverse_from(insert_reverse(done, Head(ranges)), Tail(ranges))

sorted_reverse(ranges) == sorted_reverse_from(<< >>, ranges)

memory_table_ofShortBootTable(fetched) ==
    IF fetched.exc # NoExc THEN fetched
    ELSE [fetched EXCEPT
            !.val = sorted_reverse(append_ranges(
                        << Range(PyInt(CONTROL_BLOCK),
                                 PyInt(CONTROL_BLOCK + NUM_BOOTS),
                                 "Boot Table", << >>),
                           Range(PyInt(32768), PyInt(65536),
                                 "MMU Default Table", << >>) >>,
                        @, 0))]

\* get_memory_table once it holds a boot table (lines 320-354); an exception
\* of the read passes through
memory_table_of(fetched) ==
    IF fetched.exc # NoExc THEN fetched
    ELSE [fetched EXCEPT
            !.val = sorted_reverse(append_ranges(
                        << Range(PyInt(CONTROL_BLOCK),
                                 PyInt(CONTROL_BLOCK + (256 * NUM_BOOTS)),
                                 "Boot Table", << >>),
                           Range(PyInt(32768), PyInt(65536),
                                 "MMU Default Table", << >>) >>,
                        @, 0))]

\* ManchesterFlash.get_memory_table; the boot table is read from the device
\* (control block s, see get_boot_table_loop for stop) when none is given
get_memory_table(table, s, stop) ==
    memory_table_of(IF table = None THEN get_boot_table(s, stop)
                    ELSE [exc |-> NoExc, val |-> table, reads |-> << >>])

RECURSIVE find_sector(_, _)

find_sectorKeepLast(address, i) ==
    IF i > Len(ROM_SECTORS)
    THEN << PyInt(ROM_SECTORS[i - 1][1]), PyInt(ROM_SECTORS[i - 1][2]) >>
    ELSE LET start == PyInt(ROM_SECTORS[i][1])
             end   == PyInt(ROM_SECTORS[i][2])
         IN  IF PyLe(start, address) /\ PyLt(address, end)
             THEN << start, end >>
             ELSE find_sector(address, i + 1)

\* for start,end in ROM_SECTORS: if start <= address < end: break;
\* start,end = None,None
find_sector(address, i) ==
    IF i > Len(ROM_SECTORS) THEN << None, None >>
    ELSE LET start == PyInt(ROM_SECTORS[i][1])
             end   == PyInt(ROM_SECTORS[i][2])
         IN  IF PyLe(start, address) /\ PyLt(address, end)
             THEN << start, end >>
             ELSE find_sector(address, i + 1)

\* m_start <= start < m_end or m_start <= end < m_end
clobbers(m, start, end) ==
    LET m_start == m[1][1]
        m_end   == m[1][2]
    IN  \/ PyLe(m_start, start) /\ PyLt(start, m_end)
        \/ PyLe(m_start, end) /\ PyLt(end, m_end)

\* check_erase once it holds a memory table (lines 469-474)
clobbered_of(sector, fetched) ==
    IF fetched.exc # NoExc THEN fetched
    ELSE [fetched EXCEPT
            !.val = << sector,
                       SelectSeq(@, LAMBDA m : clobbers(m, sector[1], sector[2])) >>]

\* ManchesterFlash.check_erase
check_erase(address, mem_table, table, s, stop) ==
    clobbered_of(find_sector(PyInt(address), 1),
                 IF mem_table = None THEN get_memory_table(table, s, stop)
                 ELSE [exc |-> NoExc, val |-> mem_table, reads |-> << >>])

-----------------------------------------------------------------------------
(* A caller of ManchesterFlash: it fetches the boot table and the memory   *)
(* table, or leaves the arguments at their default None, and asks what an  *)
(* erase would clobber                                                     *)

\* Where the device may fall silent during get_boot_table
BootStops == {NoStop, << 0, 5 >>, << NUM_BOOTS - 1, 255 >>}

\* address arguments of check_erase: sector boundaries, addresses inside
\* sectors, the last address of the flash and addresses beyond it
EraseAddresses ==
    {0, 16383, 16384, 16640, 24576, 32767, 32768, 65536, 196608, 262144,
     2097151, 2097152, 305419896}

\* addresses checked with the memory table left to be read from the device
DefaultAddresses == {16640, 2097152}

\* The record of a call: its arguments, where the device fell silent, what
\* its reads wrote, and the exception or the value it ended with
MCalled(op, args, stop, r) ==
    [r EXCEPT !.val = IF r.exc # NoExc THEN None ELSE @] @@
    [op |-> op, args |-> args, stop |-> stop, out |-> << >>, wire |-> << >>]

InitBoot ==
    /\ conn = "open" /\ image = "erased" /\ gen = NoGen /\ call = NoCall
    /\ num = << >> /\ num_bytes = 0 /\ encoded = << >> /\ decoded = << >>
    /\ phase = "idle"
    /\ LinkIdle
    /\ slots \in Tables
    /\ boot_table = None /\ memory_table = None
    /\ mcall = NoMCall

\* boot_table = flash.get_boot_table(), the first thing the caller does
GetBootTable ==
    /\ mcall.op = "none"
    /\ \E stop \in BootStops :
         /\ mcall' = MCalled("get_boot_table", << >>, stop,
                              get_boot_table(slots, stop))
         /\ boot_table' = IF mcall'.exc = NoExc THEN mcall'.val ELSE boot_table
    /\ UNCHANGED << flashVars, codecVars, linkVars, slots, memory_table >>

\* memory_table = flash.get_memory_table(boot_table), with the boot table
\* the caller holds; a caller holding none leaves the default, and the
\* method reads the table itself
GetMemoryTable ==
    /\ boot_table = None => mcall.op = "none"
    /\ \E stop \in IF boot_table = None THEN {NoStop, << 0, 5 >>} ELSE {NoStop} :
         /\ mcall' = MCalled("get_memory_table", << boot_table >>, stop,
                              get_memory_table(boot_table, slots, stop))
         /\ memory_table' = IF mcall'.exc = NoExc THEN mcall'.val ELSE memory_table
    /\ UNCHANGED << flashVars, codecVars, linkVars, slots, boot_table >>

\* flash.check_erase(address, memory_table, boot_table), with the tables the
\* caller holds, or with an empty memory table as do_erase passes it
CheckErase ==
    /\ \E mem_table \in {memory_table, << >>} :
         /\ (mem_table = None /\ boot_table = None) => mcall.op = "none"
         /\ \E address \in IF mem_table = None /\ boot_table = None
                           THEN DefaultAddresses ELSE EraseAddresses :
              mcall' = MCalled("check_erase", << address, mem_table, boot_table >>,
                               NoStop,
                               check_erase(address, mem_table, boot_table,
                                           slots, NoStop))
    /\ UNCHANGED << flashVars, codecVars, linkVars, slots, boot_table, memory_table >>

NextBoot == GetBootTable \/ GetMemoryTable \/ CheckErase

SpecBoot == InitBoot /\ [][NextBoot]_vars

-----------------------------------------------------------------------------
(* Properties of the boot table, the memory table and the erase check      *)

\* The 256 bytes the flash holds in boot slot i
SlotData(i) == [k \in 1..256 |-> SlotByte(slots[i], k - 1)]

\* The call returned
MReturned(op) == mcall.op = op /\ mcall.exc = NoExc

(* C11: get_boot_table returns 16 entries whenever the device answers its
   reads in full, and raises only when a read came back short; read i asks
   for the 256 bytes at CONTROL_BLOCK + 256*i; entry i is None exactly when
   the first four bytes of slot i are not "CODE", and otherwise holds the
   eleven little-endian numbers of the slot. *)
C11_BootTableDecode ==
    mcall.op = "get_boot_table" =>
       /\ mcall.stop = NoStop <=> mcall.exc = NoExc
       /\ mcall.exc # NoExc => mcall.exc.msg = "Expected %d bytes, got %d."
       /\ mcall.exc = NoExc =>
             /\ Len(mcall.val) = 16
             /\ Len(mcall.reads) = 16
             /\ \A i \in 0..15 :
                   /\ SubSeq(mcall.reads[i + 1], 1, 9)
                         = (<< 82 >> \o LE4(16384 + 256 * i)) \o LE4(256)
                   /\ (mcall.val[i + 1] = None)
                         <=> (SubSeq(SlotData(i), 1, 4) # << 67, 79, 68, 69 >>)
                   /\ mcall.val[i + 1] # None =>
                         \A f \in 1..11 :
                            mcall.val[i + 1][f]
                               = LEValue(SubSeq(SlotData(i), 4 * f + 1, 4 * f + 4))

\* A table was read whose first slot misses the magic number by its last
\* byte and whose last slot is valid
C11_Witness ==
    /\ MReturned("get_boot_table")
    /\ slots[0] = "codf" /\ mcall.val[1] = None
    /\ slots[15] = "app" /\ mcall.val[16] # None
    /\ mcall.val[16][4] = PyInt(65792)

\* The message region of slot i without its trailing 0xFF bytes
Trimmed(i) ==
    LET region == SubSeq(SlotData(i), 49, 256)
        n == CHOOSE n \in 0..Len(region) :
                /\ \A k \in (n + 1)..Len(region) : region[k] = 255
                /\ n > 0 => region[n] # 255
    IN  SubSeq(region, 1, n)

Occurs(b, str) == \E k \in 1..Len(str) : str[k] = b

(* C12: in every valid entry, lcd_message and tail come from the message
   region (slot bytes 0x30 to 0xFF) without its trailing 0xFF padding:
   lcd_message holds no NUL; when the trimmed region holds a NUL it is
   lcd_message, one NUL, tail; when it holds none, lcd_message is the whole
   trimmed region and tail is empty. *)
C12_MessageSplit ==
    MReturned("get_boot_table") =>
       \A i \in 0..15 :
          mcall.val[i + 1] # None =>
             LET lcd_msg == mcall.val[i + 1][12]
                 tail    == mcall.val[i + 1][13]
             IN  /\ ~Occurs(0, lcd_msg)
                 /\ Occurs(0, Trimmed(i)) =>
                       Trimmed(i) = (lcd_msg \o << 0 >>) \o tail
                 /\ ~Occurs(0, Trimmed(i)) =>
                       lcd_msg = Trimmed(i) /\ tail = << >>

\* A valid slot whose tail holds a 0xFF byte and a second NUL, and one whose
\* message holds no NUL
C12_Witness ==
    /\ MReturned("get_boot_table")
    /\ mcall.val[1] # None /\ mcall.val[16] # None
    /\ mcall.val[1][12] = << 72, 105 >>
    /\ mcall.val[1][13] = << 120, 255, 121, 0, 122 >>
    /\ mcall.val[16][12] = << 65, 66, 67 >> /\ mcall.val[16][13] = << >>

\* The boot table a get_memory_table or check_erase call works on: the one
\* it was given, else the one the flash holds
TableUsed(given) ==
    IF given # None THEN given
    ELSE [i \in 1..NUM_BOOTS |-> boot_entry(SlotData(i - 1))]

ImageKinds ==
    << [s |-> 2, l |-> 3, fmt |-> "Boot %d RAM Image"],
       [s |-> 4, l |-> 5, fmt |-> "Boot %d ROM Image"],
       [s |-> 8, l |-> 9, fmt |-> "Boot %d Spartan Image"],
       [s |-> 10, l |-> 11, fmt |-> "Boot %d Virtex Image"] >>

\* The regions a boot table stands for
RegionsOf(table) ==
    {Range(PyInt(16384), PyInt(20480), "Boot Table", << >>),
     Range(PyInt(32768), PyInt(65536), "MMU Default Table", << >>)}
    \cup UNION {
        IF table[i] = None THEN {}
        ELSE {Range(table[i][ImageKinds[k].s],
                    PyAdd(table[i][ImageKinds[k].s], table[i][ImageKinds[k].l]),
                    ImageKinds[k].fmt, << i - 1 >>) :
              k \in {k \in 1..4 : table[i][ImageKinds[k].l] # << >>}} :
        i \in 1..Len(table)}

(* C13: get_memory_table returns, each once, the Boot Table region
   (0x4000, 0x5000), the MMU Default Table region (0x8000, 0x10000) and one
   region (start, start + length) per image of non-zero length of each valid
   entry, labelled with the slot index and the image kind, and nothing
   else. *)
C13_MemoryTableRegions ==
    MReturned("get_memory_table") =>
       /\ {mcall.val[j] : j \in 1..Len(mcall.val)} = RegionsOf(TableUsed(mcall.args[1]))
       /\ Len(mcall.val) = Cardinality(RegionsOf(TableUsed(mcall.args[1])))

\* From a valid slot with no RAM image, a valid slot with no image at all
\* and fourteen empty slots: the two fixed regions and three images
C13_Witness ==
    /\ MReturned("get_memory_table")
    /\ mcall.args[1] # None
    /\ slots[0] = "nul" /\ slots[15] = "app"
    /\ Len(mcall.val) = 5

\* The place of a region in the order of discovery
Rank(r) ==
    CASE r[2].fmt = "Boot Table"        -> 0
      [] r[2].fmt = "MMU Default Table" -> 1
      [] OTHER ->
           2 + 4 * r[2].args[1]
             + (CHOOSE k \in 1..4 : ImageKinds[k].fmt = r[2].fmt) - 1

(* C14: the list get_memory_table returns descends by start address, and
   regions of equal start address stand in their order of discovery: the
   fixed regions, then by slot index, then RAM, ROM, Spartan, Virtex. *)
C14_SortedStable ==
    MReturned("get_memory_table") =>
       \A j \in 1..Len(mcall.val) : \A k \in (j + 1)..Len(mcall.val) :
          /\ ~PyLess(mcall.val[j][1][1], mcall.val[k][1][1])
          /\ mcall.val[j][1][1] = mcall.val[k][1][1] =>
                Rank(mcall.val[j]) < Rank(mcall.val[k])

\* Regions of two slots and the MMU Default Table start at the same address
C14_Witness ==
    /\ MReturned("get_memory_table")
    /\ \E j \in 1..Len(mcall.val) :
          /\ j + 4 <= Len(mcall.val)
          /\ \A k \in j..(j + 4) : mcall.val[k][1][1] = PyInt(32768)
          /\ mcall.val[j][2].fmt = "MMU Default Table"
          /\ mcall.val[j + 4][2].args = << 15 >>

\* The sectors holding the address
SectorsHolding(address) ==
    {i \in 1..Len(ROM_SECTORS) :
        ROM_SECTORS[i][1] <= address /\ address < ROM_SECTORS[i][2]}

SectorOf(address) ==
    LET i == CHOOSE i \in SectorsHolding(address) : TRUE
    IN  << PyInt(ROM_SECTORS[i][1]), PyInt(ROM_SECTORS[i][2]) >>

(* C15 as stated: check_erase returns the one sector holding the address
   and, for an address no sector holds, fails with an error and returns
   nothing. *)
C15_OutOfRangeFails ==
    mcall.op = "check_erase" /\ mcall.stop = NoStop =>
       IF SectorsHolding(mcall.args[1]) = {}
       THEN mcall.exc # NoExc /\ mcall.val = None
       ELSE mcall.exc = NoExc /\ mcall.val[1] = SectorOf(mcall.args[1])

(* C15, amended: check_erase returns the one sector (start, end) of the
   sector table with start <= address < end (0x4100 gives (0x4000,
   0x6000)); when no sector holds the address, that is for every address
   from 0x200000 on, it raises nothing and returns ((None, None), []),
   whatever the memory table holds. *)
C15_SectorLookup ==
    MReturned("check_erase") =>
       /\ Cardinality(SectorsHolding(mcall.args[1])) <= 1
       /\ SectorsHolding(mcall.args[1]) = {} <=> mcall.args[1] >= 2097152
       /\ SectorsHolding(mcall.args[1]) # {} =>
             mcall.val[1] = SectorOf(mcall.args[1])
       /\ mcall.args[1] = 16640 =>
             mcall.val[1] = << PyInt(16384), PyInt(24576) >>
       /\ SectorsHolding(mcall.args[1]) = {} =>
             mcall.val = << << None, None >>, << >> >>

\* An address beyond the flash was checked against a memory table with
\* regions in it, and 0x4100 was found in its sector
C15_Witness ==
    /\ MReturned("check_erase")
    /\ mcall.args[2] # None /\ Len(mcall.args[2]) >= 5
    /\ mcall.args[1] = 2097152
    /\ mcall.val = << << None, None >>, << >> >>

\* The memory table a check_erase call works on
MemoryUsed ==
    IF mcall.args[2] # None THEN mcall.args[2]
    ELSE memory_table_of([exc |-> NoExc, val |-> TableUsed(mcall.args[3]),
                          reads |-> << >>]).val

\* The half-open ranges [m[1], m[2]) and [sector[1], sector[2]) share an address
Overlap(m, sector) ==
    /\ PyLess(m[1], m[2]) /\ PyLess(sector[1], sector[2])
    /\ PyLess(m[1], sector[2]) /\ PyLess(sector[1], m[2])

InRange == MReturned("check_erase") /\ SectorsHolding(mcall.args[1]) # {}

(* C16: for an address in a sector, check_erase lists every region of the
   memory table that overlaps the sector, be it across a sector boundary,
   around the whole sector or inside the sector. *)
C16_EveryOverlapListed ==
    InRange =>
       LET used == MemoryUsed
       IN  \A j \in 1..Len(used) :
              Overlap(used[j][1], mcall.val[1]) =>
                 \E k \in 1..Len(mcall.val[2]) : mcall.val[2][k] = used[j]

\* ROM_SECTORS has n ranges, each starting where the one before it ends,
\* from 0 to 0x200000, of sizes from 0x2000 to 0x10000, no two sharing an
\* address; and the address just checked lies in exactly one of them
SectorTable(n) ==
    /\ Len(ROM_SECTORS) = n
    /\ ROM_SECTORS[1][1] = 0
    /\ ROM_SECTORS[Len(ROM_SECTORS)][2] = 2097152
    /\ \A i \in 1..Len(ROM_SECTORS) :
          /\ i > 1 => ROM_SECTORS[i][1] = ROM_SECTORS[i - 1][2]
          /\ ROM_SECTORS[i][2] - ROM_SECTORS[i][1] \in 8192..65536
    /\ \A i \in 1..Len(ROM_SECTORS) : \A j \in (i + 1)..Len(ROM_SECTORS) :
          ROM_SECTORS[i][2] <= ROM_SECTORS[j][1]
    /\ (mcall.op = "check_erase" /\ mcall.args[1] < 2097152) =>
          Cardinality(SectorsHolding(mcall.args[1])) = 1

(* C17 as stated: the sector table has 34 ranges, disjoint, contiguous and
   covering [0, 0x200000), each of size 0x2000 to 0x10000. *)
C17_ThirtyFourSectors == SectorTable(34)

(* C17, amended: the sector table has 35 ranges (four boot sectors of
   0x4000, 0x2000, 0x2000 and 0x8000 bytes and 31 sectors of 0x10000
   bytes), pairwise disjoint, contiguous and together covering exactly
   [0, 0x200000), every size between 0x2000 and 0x10000; every address
   below 0x200000 lies in exactly one sector. *)
C17_SectorTable ==
    /\ SectorTable(35)
    /\ \A i \in 1..4 :
          ROM_SECTORS[i][2] - ROM_SECTORS[i][1] = << 16384, 8192, 8192, 32768 >>[i]
    /\ \A i \in 5..Len(ROM_SECTORS) : ROM_SECTORS[i][2] - ROM_SECTORS[i][1] = 65536

\* The last address of the flash was looked up and found in the last sector
C17_Witness ==
    /\ MReturned("check_erase")
    /\ mcall.args[1] = 2097151
    /\ mcall.val[1] = << PyInt(2031616), PyInt(2097152) >>

(* C20: every region check_erase reports shares an address with the sector
   to be erased; a region beginning at the sector's end is not reported. *)
C20_OnlyOverlapsListed ==
    InRange =>
       \A k \in 1..Len(mcall.val[2]) : Overlap(mcall.val[2][k][1], mcall.val[1])

-----------------------------------------------------------------------------
(* The shell of main.py: the erase command                                 *)

HexDigits == << "0", "1", "2", "3", "4", "5", "6", "7", "8", "9",
                "a", "b", "c", "d", "e", "f" >>

\* c.lower(), for the letters the shell's inputs are made of
Lower(c) ==
    CASE c = "A" -> "a" [] c = "B" -> "b" [] c = "C" -> "c" [] c = "D" -> "d"
      [] c = "E" -> "e" [] c = "F" -> "f" [] c = "N" -> "n" [] c = "S" -> "s"
      [] c = "Y" -> "y" [] OTHER -> c

\* s.lower()
lower(str) == [i \in 1..Len(str) |-> Lower(str[i])]

\* s.strip(): s without the whitespace at its ends
strip(str) ==
    LET keep == {i \in 1..Len(str) : str[i] \notin {" ", "\t"}}
    IN  IF keep = {} THEN << >>
        ELSE SubSeq(str, CHOOSE i \in keep : \A j \in keep : i <= j,
                         CHOOSE i \in keep : \A j \in keep : j <= i)

\* The value of a hexadecimal digit, -1 for any other character
HexValue(c) ==
    IF \E v \in 1..16 : HexDigits[v] = Lower(c)
    THEN (CHOOSE v \in 1..16 : HexDigits[v] = Lower(c)) - 1
    ELSE -1

\* int(token, 16) of a token of hexadecimal digits; -1 stands for ValueError
RECURSIVE int16(_, _)
int16(token, acc) ==
    IF token = << >> THEN acc
    ELSE IF HexValue(Head(token)) < 0 THEN -1
    ELSE int16(Tail(token), acc * 16 + HexValue(Head(token)))

\* args.remove("-f"): args without the first "-f"
remove_f(args) ==
    LET i == CHOOSE i \in 1..Len(args) :
                args[i] = << "-", "f" >> /\ \A j \in 1..(i - 1) : args[j] # << "-", "f" >>
    IN  SubSeq(args, 1, i - 1) \o SubSeq(args, i + 1, Len(args))

Printed(rec, fmt, args) == [rec EXCEPT !.out = Append(@, [fmt |-> fmt, args |-> args])]

Failed(rec, msg, args) == [rec EXCEPT !.exc = [msg |-> msg, args |-> args]]

\* do_erase from line 104 on: the sector is looked up again and erased.
\* The operands of a printed line are kept as they are, not formatted.
do_erase_erase(rec, addr, reply) ==
    LET sector == check_erase(addr, << >>, None, << >>, NoStop).val[1]
        t      == erase(Thread(reply), addr)
    IN  IF sector[2] = None
        THEN Failed(rec, "unsupported operand type(s) for -: 'NoneType' and 'int'", << >>)
        ELSE [Printed(rec, "Erasing %06X - %06X (%X bytes)...", sector)
                EXCEPT !.wire = t.wire, !.exc = t.exc]

\* The lines "This block contains:" and one per clobbered range, lines 95-98
RECURSIVE print_clobbered(_, _, _)
print_clobbered(rec, clobbered, i) ==
    IF clobbered = << >> THEN rec
    ELSE IF i = 0
    THEN print_clobbered(Printed(rec, "This block contains:", << >>), clobbered, 1)
    ELSE IF i > Len(clobbered) THEN rec
    ELSE print_clobbered(Printed(rec, "  %06X - %06X %s (%X bytes)", clobbered[i]),
                         clobbered, i + 1)

do_erase_confirmNoReturn(rec, addr, checked, answer, reply) ==
    IF checked.exc # NoExc
    THEN [rec EXCEPT !.exc = checked.exc, !.reads = checked.reads]
    ELSE IF checked.val[1][2] = None
    THEN Failed([rec EXCEPT !.reads = checked.reads],
                "unsupported operand type(s) for -: 'NoneType' and 'int'", << >>)
    ELSE do_erase_erase(
             Printed(Printed([rec EXCEPT !.reads = checked.reads],
                             "Block %06X - %06X (%X bytes) will be erased.",
                             checked.val[1]),
                     IF lower(strip(answer)) \notin {<< "y" >>, << "y", "e", "s" >>}
                     THEN "Cancelled." ELSE "", << >>),
             addr, reply)

\* do_erase, lines 93-101, once check_erase(addr) has ended as checked: the
\* block and what it holds are shown and the user is asked
do_erase_confirm(rec, addr, checked, answer, reply) ==
    IF checked.exc # NoExc
    THEN [rec EXCEPT !.exc = checked.exc, !.reads = checked.reads]
    ELSE IF checked.val[1][2] = None
    THEN Failed([rec EXCEPT !.reads = checked.reads],
                "unsupported operand type(s) for -: 'NoneType' and 'int'", << >>)
    ELSE IF lower(strip(answer)) \notin {<< "y" >>, << "y", "e", "s" >>}
    THEN Printed(print_clobbered(
                    Printed([rec EXCEPT !.reads = checked.reads],
                            "Block %06X - %06X (%X bytes) will be erased.",
                            checked.val[1]),
                    checked.val[2], 0),
                 "Cancelled.", << >>)
    ELSE do_erase_erase(
             print_clobbered(
                Printed([rec EXCEPT !.reads = checked.reads],
                        "Block %06X - %06X (%X bytes) will be erased.",
                        checked.val[1]),
                checked.val[2], 0),
             addr, reply)

\* What a command has printed, what its reads and its erase have put on the
\* wire, and the exception that ended it
NoShell == [out |-> << >>, reads |-> << >>, wire |-> << >>, exc |-> NoExc]

\* do_erase(flash, args).  answer is what the user types at the prompt, s
\* and stop are the flash's control block and where the device falls silent
\* (see get_boot_table_loop), reply is what the device answers to 'E'.
do_erase(args, answer, s, stop, reply) ==
    LET force == \E i \in 1..Len(args) : args[i] = << "-", "f" >>
        rest  == IF force THEN remove_f(args) ELSE args
        addr  == int16(rest[1], 0)
    IN  IF rest = << >> THEN Failed(NoShell, "list index out of range", << >>)
        ELSE IF rest[1] = << >> \/ addr < 0
        THEN Failed(NoShell, "invalid literal for int() with base 16: %s", << rest[1] >>)
        ELSE IF ~force
        THEN do_erase_confirm(Printed(NoShell, "Checking memory map...", << >>),
                              addr, check_erase(addr, None, None, s, stop),
                              answer, reply)
        ELSE do_erase_erase(NoShell, addr, reply)

\* do_comand for the command "erase": an exception is printed, and the shell
\* goes on
do_comand(args, answer, stop, rec) ==
    [op |-> "erase", args |-> << args, answer >>, stop |-> stop,
     reads |-> rec.reads, exc |-> rec.exc, val |-> TRUE, wire |-> rec.wire,
     out |-> IF rec.exc = NoExc THEN rec.out
             ELSE Append(rec.out, [fmt |-> rec.exc.msg, args |-> rec.exc.args])]

\* The address tokens typed: 4100, 1FFFFF, 200000, and one that is no number
Tokens ==
    { << "4", "1", "0", "0" >>, << "1", "F", "F", "F", "F", "F" >>,
      << "2", "0", "0", "0", "0", "0" >>, << "z", "z" >> }

\* The arguments typed after "erase"
ShellArgs ==
    {<< >>, << << "-", "f" >> >>}
    \cup {<< tok >> : tok \in Tokens}
    \cup {<< << "-", "f" >>, tok >> : tok \in Tokens}
    \cup {<< tok, << "-", "f" >> >> : tok \in Tokens}

\* What the user types at "Are you sure? [y/N] "
Answers ==
    { << "y" >>, << "y", "e", "s" >>, << " ", "Y", "E", "S", " " >>,
      << >>, << "n" >>, << "y", "e" >> }

\* The control blocks of the flashes the shell is run on
ShellTables == {s \in Tables : s[NUM_BOOTS - 1] = "erased" /\ s[0] \in {"erased", "mmu"}}

InitShell ==
    /\ conn = "open" /\ image = "erased" /\ gen = NoGen /\ call = NoCall
    /\ num = << >> /\ num_bytes = 0 /\ encoded = << >> /\ decoded = << >>
    /\ phase = "idle"
    /\ LinkIdle
    /\ slots \in ShellTables
    /\ boot_table = None /\ memory_table = None
    /\ mcall = NoMCall

\* "erase" typed at the prompt without -f.  do_erase keeps nothing from one
\* command to the next; the safety check is followed as the first command
\* of a session.
EraseChecked ==
    /\ mcall.op = "none"
    /\ \E args \in {a \in ShellArgs : \A i \in 1..Len(a) : a[i] # << "-", "f" >>},
          answer \in Answers, stop \in {NoStop, << 0, 5 >>}, reply \in AckReplies :
         mcall' = do_comand(args, answer, stop,
                            do_erase(args, answer, slots, stop, reply))
    /\ UNCHANGED << flashVars, codecVars, linkVars, slots, boot_table, memory_table >>

\* "erase -f" typed at the prompt: nothing is read and nothing is asked
EraseForced ==
    /\ mcall.op \in {"none", "erase"}
    /\ \E args \in {a \in ShellArgs : \E i \in 1..Len(a) : a[i] = << "-", "f" >>},
          reply \in AckReplies :
         mcall' = do_comand(args, << >>, NoStop,
                            do_erase(args, << >>, slots, NoStop, reply))
    /\ UNCHANGED << flashVars, codecVars, linkVars, slots, boot_table, memory_table >>

NextShell == EraseChecked \/ EraseForced

SpecShell == InitShell /\ [][NextShell]_vars

-----------------------------------------------------------------------------
(* Properties of the erase command                                         *)

\* -f is among the arguments typed
Forced(args) == \E i \in 1..Len(args) : args[i] = << "-", "f" >>

\* The address typed: the first argument that is not -f; -1 when there is
\* none or it is no number
Typed(args) ==
    LET toks == SelectSeq(args, LAMBDA a : a # << "-", "f" >>)
    IN  IF toks = << >> THEN -1
        ELSE CASE toks[1] = << "4", "1", "0", "0" >>           -> 16640
               [] toks[1] = << "1", "F", "F", "F", "F", "F" >> -> 2097151
               [] toks[1] = << "2", "0", "0", "0", "0", "0" >> -> 2097152
               [] OTHER                                        -> -1

\* The answer is y or yes, in any case, with blanks around it or not
Affirmative(answer) ==
    answer \in { << "y" >>, << "y", "e", "s" >>, << " ", "Y", "E", "S", " " >> }

\* The command showed the block and asked "Are you sure?"
Asked == \E i \in 1..Len(mcall.out) :
            mcall.out[i].fmt = "Block %06X - %06X (%X bytes) will be erased."

\* The command wrote 'E' as the opcode of a command frame: as the first
\* byte of one of its reads or of what followed them.  (The byte value 0x45
\* as such also occurs in the address 0x4500 that the read of slot 5 asks for.)
WroteE ==
    \/ \E i \in 1..Len(mcall.reads) : mcall.reads[i][1] = 69
    \/ EvBytes(mcall.wire, "tx") # << >> /\ EvBytes(mcall.wire, "tx")[1] = 69

(* C18: the erase command writes the opcode 'E' only in flash.erase, with
   the address typed, and only when -f was typed or the user, asked after
   the sixteen reads of the safety check, answered y or yes (in any case,
   blanks ignored); after any other answer it prints "Cancelled." and has
   written no 'E' opcode; and it writes none when the address typed lies in
   no sector. *)
C18_EraseNeedsConsent ==
    mcall.op = "erase" =>
       /\ WroteE =>
             /\ EvBytes(mcall.wire, "tx")
                   = << 69 >> \o LE4(Typed(mcall.args[1]))
             /\ \A i \in 1..Len(mcall.reads) : mcall.reads[i][1] = 82
             /\ Forced(mcall.args[1]) \/ (Asked /\ Affirmative(mcall.args[2]))
             /\ SectorsHolding(Typed(mcall.args[1])) # {}
       /\ Asked => ~Forced(mcall.args[1]) /\ Len(mcall.reads) = 16
       /\ (Asked /\ ~Affirmative(mcall.args[2])) =>
             /\ ~WroteE
             /\ mcall.exc = NoExc
             /\ mcall.out[Len(mcall.out)].fmt = "Cancelled."

\* Without -f, the user answered " YES " and the sector of 0x4100 was erased
C18_Witness ==
    /\ mcall.op = "erase"
    /\ ~Forced(mcall.args[1])
    /\ mcall.args[2] = << " ", "Y", "E", "S", " " >>
    /\ Asked /\ WroteE
    /\ mcall.exc = NoExc
    /\ mcall.out[Len(mcall.out)].fmt = "Erasing %06X - %06X (%X bytes)..."

-----------------------------------------------------------------------------
(* A drained bulk transfer against a device that keeps to the protocol.    *)
(* The host is the generator of rom_read_ or rom_write_ with next() called *)
(* until it ends; its reads wait for the device's bytes.  The device is    *)
(* not part of the repository: it is written down from the protocol, one   *)
(* byte per step.                                                          *)

\* The length field of a command frame (lengths here fit its low two bytes)
FrameLength(frame) == frame[6] + 256 * frame[7]

\* The address field of a command frame, modulo 2^16
FrameAddress(frame) == frame[2] + 256 * frame[3]

\* The device takes the next byte of a command frame; with the ninth it
\* starts to serve the command
DevCommand ==
    /\ dev.pc = "idle"
    /\ h2d # << >>
    /\ h2d' = Tail(h2d)
    /\ LET frame == Append(dev.frame, Head(h2d))
       IN  dev' = IF Len(frame) < 9 THEN [dev EXCEPT !.frame = frame]
                  ELSE IF FrameLength(frame) = 0 THEN NoDev
                  ELSE [pc |-> IF frame[1] = Ord("R") THEN "send" ELSE "recv",
                        op |-> frame[1], remaining |-> FrameLength(frame),
                        window |-> 0, frame |-> frame]
    /\ UNCHANGED << flashVars, codecVars, bootVars, host, d2h >>

\* Read: the device sends the next byte, at most ACK_PERIOD of them before
\* it waits for the host's ack, and it waits for one after the last byte too
DevSend ==
    /\ dev.pc = "send"
    /\ d2h' = Append(d2h, Rom(image, FrameAddress(dev.frame)
                                      + FrameLength(dev.frame) - dev.remaining))
    /\ dev' = [dev EXCEPT !.remaining = @ - 1, !.window = @ + 1,
                          !.pc = IF dev.window + 1 = ACK_PERIOD \/ dev.remaining = 1
                                 THEN "wait_ack" ELSE "send"]
    /\ UNCHANGED << flashVars, codecVars, bootVars, host, h2d >>

\* Read: the device takes the host's ack
DevAck ==
    /\ dev.pc = "wait_ack"
    /\ h2d # << >>
    /\ h2d' = Tail(h2d)
    /\ dev' = IF dev.remaining = 0 THEN NoDev
              ELSE [dev EXCEPT !.window = 0, !.pc = "send"]
    /\ UNCHANGED << flashVars, codecVars, bootVars, host, d2h >>

\* Write: the device takes a data byte, and returns one 'A' after the
\* ACK_PERIOD-th byte of a chunk and after the last byte
DevRecv ==
    /\ dev.pc = "recv"
    /\ h2d # << >>
    /\ h2d' = Tail(h2d)
    /\ IF dev.window + 1 = ACK_PERIOD \/ dev.remaining = 1
       THEN /\ d2h' = Append(d2h, Ord("A"))
            /\ dev' = IF dev.remaining = 1 THEN NoDev
                      ELSE [dev EXCEPT !.remaining = @ - 1, !.window = 0]
       ELSE /\ d2h' = d2h
            /\ dev' = [dev EXCEPT !.remaining = @ - 1, !.window = @ + 1]
    /\ UNCHANGED << flashVars, codecVars, bootVars, host >>

Device == DevCommand \/ DevSend \/ DevAck \/ DevRecv

\* The host's steps are the statements of rom_read_ and rom_write_, run by
\* a caller that calls next() again after every yield.  host.pc is the line
\* the generator stands before; a read of the serial port waits for the
\* device's byte.

ReadPosNoFinalAck(g) ==
    IF g.read_bytes < g.length THEN "138" ELSE "done"

\* Where rom_read_ goes on from the while test of line 137
ReadPos(g) ==
    IF g.read_bytes < g.length THEN "138"
    ELSE IF g.read_bytes % ACK_PERIOD # 0 THEN "149"
    ELSE "done"

\* Where rom_write_ goes on from the while test of line 171
WritePos(g) == IF g.data # << >> THEN "172" ELSE "done"

\* Lines 131-136 and 167-169: the three writes of the command frame
HostCommand ==
    /\ host.pc = "start"
    /\ h2d' = h2d \o << IF host.kind = "read" THEN Ord("R") ELSE Ord("W") >>
                   \o word(PyInt(host.address))
                   \o word(PyInt(IF host.kind = "read" THEN host.length
                                  ELSE Len(host.data)))
    /\ host' = IF host.kind = "read"
               THEN [host EXCEPT !.data = << >>, !.read_bytes = 0,
                                 !.pc = ReadPos([host EXCEPT !.read_bytes = 0])]
               ELSE [host EXCEPT !.pc = WritePos(host)]
    /\ UNCHANGED << flashVars, codecVars, bootVars, dev, d2h >>

\* Lines 138-142: data += self.read(1); read_bytes += 1
HostRead ==
    /\ host.pc = "138"
    /\ d2h # << >>
    /\ LET t == read(Thread(d2h), 1)
       IN  /\ d2h' = t.inp
           /\ host' = [host EXCEPT !.data = @ \o t.ret,
                                   !.read_bytes = @ + 1,
                                   !.pc = IF (host.read_bytes + 1) % ACK_PERIOD = 0
                                          THEN "143"
                                          ELSE ReadPos([host EXCEPT !.read_bytes = @ + 1])]
    /\ UNCHANGED << flashVars, codecVars, bootVars, dev, h2d >>

\* Lines 143-145 and 149-150: self.send_ack(); yield data
HostSendAck ==
    /\ host.pc \in {"143", "149"}
    /\ h2d' = h2d \o EvBytes(send_ack(Thread(d2h)).wire, "tx")
    /\ host' = IF host.pc = "143"
               THEN [host EXCEPT !.yielded = Append(@, host.data), !.data = << >>,
                                 !.pc = ReadPos(host)]
               ELSE [host EXCEPT !.yielded = Append(@, host.data), !.pc = "done"]
    /\ UNCHANGED << flashVars, codecVars, bootVars, dev, d2h >>

\* Lines 172-175: the next block is written and its length yielded
HostWriteBlock ==
    /\ host.pc = "172"
    /\ LET block == SubSeq(host.data, 1, Min(ACK_PERIOD, Len(host.data)))
       IN  /\ h2d' = h2d \o EvBytes(write(Thread(d2h), block).wire, "tx")
           /\ host' = [host EXCEPT
                         !.data = SubSeq(@, ACK_PERIOD + 1, Len(@)),
                         !.yielded = Append(@, Len(block)),
                         !.pc = "176"]
    /\ UNCHANGED << flashVars, codecVars, bootVars, dev, d2h >>

\* Line 176: self.get_ack()
HostGetAck ==
    /\ host.pc = "176"
    /\ d2h # << >>
    /\ LET t == get_ack(Thread(d2h))
       IN  /\ d2h' = t.inp
           /\ host' = [host EXCEPT !.pc = IF t.exc # NoExc THEN "raised"
                                          ELSE WritePos(host)]
    /\ UNCHANGED << flashVars, codecVars, bootVars, dev, h2d >>

Host == HostCommand \/ HostRead \/ HostSendAck \/ HostWriteBlock \/ HostGetAck

InitLink ==
    /\ conn = "open" /\ image \in Images /\ gen = NoGen /\ call = NoCall
    /\ num = << >> /\ num_bytes = 0 /\ encoded = << >> /\ decoded = << >>
    /\ phase = "idle"
    /\ BootIdle
    /\ \E address \in Addresses, length \in Lengths :
          host \in {NewReadGen(address, length),
                    NewWriteGen(address, RomBytes(image, address, length))}
    /\ h2d = << >> /\ d2h = << >>
    /\ dev = NoDev

NextLink == Host \/ Device

\* The caller's for loop keeps calling next(), and the device keeps serving
SpecLink ==
    InitLink /\ [][NextLink]_vars /\ WF_vars(Host) /\ WF_vars(Device)

\* Both sides are at rest and nothing is in flight
Synced ==
    /\ host.pc = "done"
    /\ dev = NoDev
    /\ h2d = << >> /\ d2h = << >>

(* C19: against a device that keeps to the protocol, every drained bulk
   read and bulk write, of any length, comes to its end without an error
   and with both sides at rest: the device serving no command, no data byte
   unread and no ack unconsumed in either direction. *)
C19_TransferTerminates == <>[]Synced

\* A read of 32 bytes and a write of 0 bytes are among the transfers that
\* end so: here the read, all its bytes yielded
C19_Witness ==
    /\ Synced
    /\ host.kind = "read" /\ host.length = 32
    /\ Len(Join(host.yielded)) = 32

=============================================================================
